---- MODULE Spec2Model ----
(***************************************************************************)
(* A model of on_this_day (src/main.py): the Event record and its ordering *)
(* key, the two source adapters, the collector and the process entry       *)
(* point.                                                                  *)
(*                                                                         *)
(* Reading of the source.  main.py is a sketch that refers to names it     *)
(* never binds (`today`, `Optional`, `EventType.NATIONAL_DAY_OF_X`,        *)
(* `dateutil.parser`, the `.content` of a tag, `.date` without its call).  *)
(* Such a name is read as the object it evidently refers to: `today` is    *)
(* the current date that line 54 obtains, NATIONAL_DAY_OF_X is             *)
(* NATIONAL_DAY, `.content` is the text of the tag, `.date` is the         *)
(* calendar day of the parsed value.  Every expression that does bind is   *)
(* modelled as Python evaluates it: a list never equals an int (line 70),  *)
(* timedelta takes no `years` (lines 56, 93), `birth_data` after the first *)
(* loop is the last birth (line 111), sorted() is stable (line 211).       *)
(*                                                                         *)
(* Data.  A calendar date is <<year, month, day>>; date, datetime and the  *)
(* day of a datetime are all modelled as the calendar day they denote.     *)
(* Titles, links and texts are small integers; the order of the integers   *)
(* stands for the lexicographic order of the strings.                      *)
(***************************************************************************)
EXTENDS Integers, Sequences, FiniteSets, Bags, TLC

\* ---------------------------------------------------------------- bounds
\* Records delivered to one collection run (all adapters together).
MaxEvents == 3
\* Cards of one page of the card source.
MaxCards == 2
\* Entries of each of the four collections of one feed payload.
MaxEntries == 2

\* ------------------------------------------------------- program constants
\* Source.weight
DefaultWeight == 10
\* EventType
NATIONAL_DAY == 10
HOLIDAY == 20
ON_THIS_DAY == 30
BIRTH == 40
DEATH == 41

\* Python's None where a date is expected (end_date: Optional[date] = None).
None == <<>>
\* Python's None where a year is expected (year: Optional[int] = None); like
\* None it is falsy in `year or ...`.
NoYear == 0

\* The two adapter classes of the file.
DaysOfTheYearSource == "DaysOfTheYearSource"
WikipediaSource == "WikipediaSource"

\* ------------------------------------------------------------ calendar
\* datetime.date's calendar.
IsLeap(y) == (y % 4 = 0 /\ y % 100 # 0) \/ y % 400 = 0

DaysInMonth(y, m) ==
    IF m = 2 THEN (IF IsLeap(y) THEN 29 ELSE 28)
    ELSE IF m \in {4, 6, 9, 11} THEN 30 ELSE 31

IsDate(d) == /\ d[2] \in 1..12
             /\ d[3] \in 1..DaysInMonth(d[1], d[2])

\* date.__lt__: chronological order.
DateLt(a, b) ==
    \/ a[1] < b[1]
    \/ a[1] = b[1] /\ a[2] < b[2]
    \/ a[1] = b[1] /\ a[2] = b[2] /\ a[3] < b[3]

DateLe(a, b) == a = b \/ DateLt(a, b)

\* d - datetime.timedelta(days=1)
MinusOneDay(d) ==
    IF d[3] > 1 THEN <<d[1], d[2], d[3] - 1>>
    ELSE IF d[2] > 1 THEN <<d[1], d[2] - 1, DaysInMonth(d[1], d[2] - 1)>>
    ELSE <<d[1] - 1, 12, 31>>

\* ------------------------------------------------------------ state
VARIABLES
    sources,        \* EventCollector.sources: the registry, a sequence of adapters
    weight,         \* weight[s]: the weight property of adapter s
    pc,             \* events_today: "idle", "loop", "returned" or "raised"
    i,              \* events_today: position of the loop over self.sources
    all_events,     \* events_today: the local all_events
    sorted_events,  \* events_today: the value returned
    failed,         \* adapters whose fetch_events raised in this run
    main_pc,        \* __main__: where the entry point is
    events_today,   \* __main__: the variable events_today
    first_events,   \* the records the adapters delivered to the first call
    header,         \* __main__: the count printed in the header line, -1 before
    lines,          \* __main__: the event lines printed
    today,          \* datetime.date.today()
    request,        \* fetch_events: its arguments [day, month, year]
    adapter,        \* the adapter whose fetch_events was called, "none" before
    payload,        \* what the provider answered: a page of cards or a feed
    fetched         \* fetch_events: its outcome [raised, date, events]

collector_vars == <<sources, weight, pc, i, all_events, sorted_events, failed>>
main_vars == <<main_pc, events_today, first_events, header, lines>>
adapter_vars == <<request, adapter, payload, fetched>>
vars == <<collector_vars, main_vars, adapter_vars, today>>

\* ------------------------------------------------------------ Event
\* Event.__init__
Event(source, date, title, link, type, end_date) ==
    [source |-> source,
     date |-> date,
     end_date |-> IF end_date = None THEN date ELSE end_date,
     title |-> title,
     link |-> link,
     type |-> type]

\* Event.is_single_day
is_single_day(e) == e.end_date = None \/ e.date = e.end_date

\* Event.__eq__
EventEq(a, b) == a.title = b.title /\ a.link = b.link

\* Event.__str__: date[ - end_date]: type: title (link), field by field.
Str(e) ==
    <<e.date, IF ~is_single_day(e) THEN e.end_date ELSE None, e.type, e.title, e.link>>

\* Source.weight, looked up through the record's source.
Weight(s) == weight[s]

\* A key that puts the single-day flag before the weight.
order_index_flag_first(e) ==
    <<IF is_single_day(e) THEN 0 ELSE 1,
      Weight(e.source),
      e.date,
      e.type,
      e.title>>

\* Event.order_index
order_index(e) ==
    <<Weight(e.source),
      IF is_single_day(e) THEN 0 ELSE 1,
      e.date,
      e.type,
      e.title>>

\* Python's list comparison: the first position where the two lists differ
\* decides; position 3 of an ordering key holds a date.
RECURSIVE FirstDiff(_, _, _)
FirstDiff(a, b, k) ==
    IF k > Len(a) \/ k > Len(b) THEN 0
    ELSE IF a[k] # b[k] THEN k
    ELSE FirstDiff(a, b, k + 1)

ElemLess(x, y, k) == IF k = 3 THEN DateLt(x, y) ELSE x < y

ListLess(a, b) ==
    LET k == FirstDiff(a, b, 1)
    IN  IF k = 0 THEN Len(a) < Len(b) ELSE ElemLess(a[k], b[k], k)

\* A comparison that is <= instead of <.
EventLt_or_equal(a, b) == ~ListLess(order_index(b), order_index(a))

\* Event.__lt__
EventLt(a, b) == ListLess(order_index(a), order_index(b))

\* sorted(): a stable sort that compares with __lt__ only.  Each element is
\* placed before the first element it is less than.
RECURSIVE Insert(_, _)
Insert(x, s) ==
    IF s = <<>> THEN <<x>>
    ELSE IF EventLt(x, Head(s)) THEN <<x>> \o s
    ELSE <<Head(s)>> \o Insert(x, Tail(s))

\* A sort that keeps one record of those that are == to each other.
RECURSIVE sorted_unique(_)
sorted_unique(s) ==
    IF s = <<>> THEN <<>>
    ELSE LET rest == sorted_unique(SubSeq(s, 1, Len(s) - 1))
             x == s[Len(s)]
         IN  IF \E k \in DOMAIN rest : EventEq(rest[k], x) THEN rest ELSE Insert(x, rest)

RECURSIVE sorted(_)
sorted(s) ==
    IF s = <<>> THEN <<>>
    ELSE Insert(s[Len(s)], sorted(SubSeq(s, 1, Len(s) - 1)))

\* ------------------------------------------------------------ adapters
SeqsUpTo(S, n) == UNION {[1..k -> S] : k \in 0..n}
Min(a, b) == IF a < b THEN a ELSE b

\* The outcome of a fetch_events call: the exception it raised ("no" when it
\* returned), the local `date` and the list returned.
Returned(date, events) == [raised |-> "no", date |-> date, events |-> events]
Raised(what) == [raised |-> what, date |-> None, events |-> <<>>]

\* fetch_events, lines 54-56 and 91-93: the date the call is about.
\*   date = datetime.date(year or today.year, month, day): ValueError when
\*     that is no calendar date;
\*   if year is None and date < today: date += timedelta(years=1): timedelta
\*     has no `years`, TypeError.
ResolveDate(day, month, year, now) ==
    LET date == <<IF year # NoYear THEN year ELSE now[1], month, day>>
    IN  IF ~IsDate(date) THEN Raised("ValueError")
        ELSE IF year = NoYear /\ DateLt(date, now) THEN Raised("TypeError")
        ELSE Returned(date, <<>>)

\* The text of a card's date_day: one or more date phrases joined by " - ".
\* A phrase <<y, m, d>> reads "Tue Sep 20th, 2022"; with d = 0 it names no
\* day and reads "September, 2022".
HasDash(text) == Len(text) > 1

\* str.split(): the words of a phrase.
Words(phrase) ==
    IF phrase[3] = 0 THEN <<phrase[2], phrase[1]>>
    ELSE <<0, phrase[2], phrase[3], phrase[1]>>

\* dateutil.parser.parse: what the phrase does not name is taken from today.
parse(phrase, now) ==
    IF phrase[3] = 0
    THEN <<phrase[1], phrase[2], Min(now[3], DaysInMonth(phrase[1], phrase[2]))>>
    ELSE phrase

\* A comparison of the number of words with n.
LenEquals(list, n) == Len(list) = n

\* list == int: a list is never equal to a number.
ListEqualsInt(list, n) == FALSE

\* DaysOfTheYearSource.fetch_events, lines 64-78: <<event_date, end_date>> of
\* a card.
CardDates(text, now) ==
    IF HasDash(text)
    THEN <<parse(text[1], now), parse(text[2], now)>>
    ELSE IF ListEqualsInt(Words(text[1]), 2)
    THEN LET month == text[1][2]
             year == text[1][1]
         IN  <<<<year, month, 1>>, MinusOneDay(<<year, (month % 12) + 1, 1>>)>>
    ELSE <<parse(text[1], now), None>>

\* DaysOfTheYearSource.fetch_events, lines 62-83: the record of one card.
CardEvent(card, now) ==
    LET dates == CardDates(card.date_day, now)
    IN  Event(DaysOfTheYearSource, dates[1], card.title, card.href, NATIONAL_DAY, dates[2])

\* DaysOfTheYearSource.fetch_events
DaysOfTheYearFetch(cards, day, month, year, now) ==
    LET r == ResolveDate(day, month, year, now)
    IN  IF r.raised # "no" THEN r
        ELSE Returned(r.date, [k \in DOMAIN cards |-> CardEvent(cards[k], now)])

\* WikipediaSource.fetch_events.  The records of deaths take their link from
\* birth_data, the variable of the loop before: the last birth, unbound when
\* there is none.
WikipediaFetch(api_data, day, month, year, now) ==
    LET r == ResolveDate(day, month, year, now)
        births == api_data.births
        last_birth == births[Len(births)]
        from_births ==
            [k \in DOMAIN births |->
                Event(WikipediaSource, <<births[k].year, month, day>>,
                      births[k].text, births[k].page, BIRTH, None)]
        from_deaths ==
            [k \in DOMAIN api_data.deaths |->
                Event(WikipediaSource, <<api_data.deaths[k].year, month, day>>,
                      api_data.deaths[k].text, last_birth.page, DEATH, None)]
        from_events ==
            [k \in DOMAIN api_data.events |->
                Event(WikipediaSource, <<api_data.events[k].year, month, day>>,
                      api_data.events[k].text, api_data.events[k].page, ON_THIS_DAY, None)]
        from_holidays ==
            [k \in DOMAIN api_data.holidays |->
                Event(WikipediaSource, <<r.date[1], month, day>>,
                      api_data.holidays[k].text, api_data.holidays[k].page, HOLIDAY, None)]
        Valid(seq) == \A k \in DOMAIN seq : IsDate(<<seq[k].year, month, day>>)
    IN  IF r.raised # "no" THEN r
        ELSE IF ~Valid(births) THEN Raised("ValueError")
        ELSE IF api_data.deaths # <<>> /\ ~Valid(<<api_data.deaths[1]>>) THEN Raised("ValueError")
        ELSE IF api_data.deaths # <<>> /\ births = <<>> THEN Raised("NameError")
        ELSE IF ~Valid(api_data.deaths \o api_data.events) THEN Raised("ValueError")
        ELSE Returned(r.date, from_births \o from_deaths \o from_events \o from_holidays)

\* ------------------------------------------------------------ inputs
\* The adapters of a registry: A and B are adapters of any Source subclass;
\* a subclass may override the weight property.
Weights == {DefaultWeight - 5, DefaultWeight}

D1 == <<2022, 9, 15>>
D2 == <<2022, 10, 15>>
\* <<date, end_date>> of a record: two single days and one span.
Spans == {<<D1, None>>, <<D2, None>>, <<D1, D2>>}
Titles == {1, 2}
Links == {1, 2}
Types == {HOLIDAY, BIRTH}

\* The records an adapter s of any Source subclass can return (one link:
\* the ordering key does not read it).
EventsOf(s) ==
    {Event(s, sp[1], t, 1, ty, sp[2]) : sp \in Spans, t \in Titles, ty \in Types}

Todays == {<<2024, 8, 10>>, <<2024, 12, 31>>}
Requests ==
    {[day |-> dm[1], month |-> dm[2], year |-> y] :
        dm \in {<<2, 8>>, <<10, 8>>, <<29, 2>>}, y \in {NoYear, 2023}}

\* Date texts: a single date, a range, and "month, year" for every month.
SingleText == <<D1>>
RangeText == <<D1, D2>>
MonthTexts == {<<<<2022, m, 0>>>> : m \in 1..12}
Cards ==
    {[date_day |-> tx, title |-> t, href |-> 1] :
        tx \in {SingleText, RangeText} \cup MonthTexts, t \in Titles}
\* The cards of the page the entry point reads.
MainCards ==
    {[date_day |-> tx, title |-> t, href |-> l] :
        tx \in {SingleText, RangeText, <<<<2022, 12, 0>>>>}, t \in Titles, l \in Links}

Entries == {[year |-> 1990, text |-> 1, page |-> l] : l \in Links}
Feeds ==
    [births : SeqsUpTo(Entries, MaxEntries), deaths : SeqsUpTo(Entries, MaxEntries),
     events : SeqsUpTo(Entries, MaxEntries), holidays : SeqsUpTo(Entries, MaxEntries)]

\* The lists of at most n records that fetch_events(today.day, today.month)
\* of adapter s can return.
Deliveries(s, n) ==
    IF s = DaysOfTheYearSource
    THEN {DaysOfTheYearFetch(cards, today[3], today[2], NoYear, today).events :
             cards \in SeqsUpTo(MainCards, Min(n, MaxCards))}
    ELSE SeqsUpTo(EventsOf(s), n)

\* ------------------------------------------------------------ collector
NoCall == [raised |-> "no", date |-> None, events |-> <<>>]

MainIdle ==
    /\ main_pc = "none"
    /\ events_today = <<>>
    /\ first_events = <<>>
    /\ header = -1
    /\ lines = <<>>

AdapterIdle ==
    /\ request = [day |-> 1, month |-> 1, year |-> NoYear]
    /\ adapter = "none"
    /\ payload = <<>>
    /\ fetched = NoCall

\* EventCollector.__init__ with a registry of adapters, then events_today
\* entered: all_events = [].
Init ==
    /\ sources \in {<<"A">>, <<"A", "B">>}
    /\ weight \in [{sources[k] : k \in DOMAIN sources} -> Weights]
    /\ pc = "loop"
    /\ i = 1
    /\ all_events = <<>>
    /\ sorted_events = <<>>
    /\ failed = {}
    /\ today = None
    /\ MainIdle
    /\ AdapterIdle

\* all_events += source.fetch_events(t_day.day, t_day.month), the adapter
\* returning a list.
Fetch ==
    /\ pc = "loop"
    /\ i <= Len(sources)
    /\ \E evs \in Deliveries(sources[i], MaxEvents - Len(all_events)) :
           all_events' = all_events \o evs
    /\ i' = i + 1
    /\ UNCHANGED <<sources, weight, pc, sorted_events, failed>>
    /\ UNCHANGED <<main_vars, adapter_vars, today>>

\* The same statement, the adapter raising: events_today has no handler, so
\* the exception leaves events_today.
FetchRaises ==
    /\ pc = "loop"
    /\ i <= Len(sources)
    /\ failed' = failed \cup {sources[i]}
    /\ pc' = "raised"
    /\ UNCHANGED <<sources, weight, i, all_events, sorted_events>>
    /\ UNCHANGED <<main_vars, adapter_vars, today>>

\* sorted_events = sorted(all_events); return sorted_events
Return ==
    /\ pc = "loop"
    /\ i > Len(sources)
    /\ sorted_events' = sorted(all_events)
    /\ pc' = "returned"
    /\ UNCHANGED <<sources, weight, i, all_events, failed>>
    /\ UNCHANGED <<main_vars, adapter_vars, today>>

Next == Fetch \/ FetchRaises \/ Return

Spec == Init /\ [][Next]_vars

\* ------------------------------------------------------------ entry point
\* The process started: nothing constructed yet.
InitMain ==
    /\ sources = <<>>
    /\ weight = [s \in {DaysOfTheYearSource} |-> DefaultWeight]
    /\ pc = "idle"
    /\ i = 1
    /\ all_events = <<>>
    /\ sorted_events = <<>>
    /\ failed = {}
    /\ today \in Todays
    /\ main_pc = "start"
    /\ events_today = <<>>
    /\ first_events = <<>>
    /\ header = -1
    /\ lines = <<>>
    /\ AdapterIdle

\* collector = EventCollector(); events_today = collector.events_today(),
\* up to the loop over the sources.
MainFirstCall ==
    /\ main_pc = "start"
    /\ sources' = <<DaysOfTheYearSource>>
    /\ pc' = "loop"
    /\ i' = 1
    /\ all_events' = <<>>
    /\ main_pc' = "first"
    /\ UNCHANGED <<weight, sorted_events, failed>>
    /\ UNCHANGED <<events_today, first_events, header, lines, adapter_vars, today>>

\* The first call returned: events_today is bound and the header printed.
MainHeader ==
    /\ main_pc = "first"
    /\ pc = "returned"
    /\ events_today' = sorted_events
    /\ first_events' = all_events
    /\ header' = Len(sorted_events)
    /\ main_pc' = "header"
    /\ UNCHANGED <<collector_vars, lines, adapter_vars, today>>

\* for e in collector.events_today(): the second call, up to its loop.
MainSecondCall ==
    /\ main_pc = "header"
    /\ pc' = "loop"
    /\ i' = 1
    /\ all_events' = <<>>
    /\ sorted_events' = <<>>
    /\ main_pc' = "second"
    /\ UNCHANGED <<sources, weight, failed>>
    /\ UNCHANGED <<events_today, first_events, header, lines, adapter_vars, today>>

\* The second call returned: print(e) for each record of its result.
MainPrint ==
    /\ main_pc = "second"
    /\ pc = "returned"
    /\ lines' = [k \in DOMAIN sorted_events |-> Str(sorted_events[k])]
    /\ main_pc' = "exit"
    /\ UNCHANGED <<collector_vars, events_today, first_events, header, adapter_vars, today>>

\* An exception left events_today: the process ends with a traceback.
MainCrash ==
    /\ main_pc \in {"first", "second"}
    /\ pc = "raised"
    /\ main_pc' = "crashed"
    /\ UNCHANGED <<collector_vars, events_today, first_events, header, lines, adapter_vars, today>>

NextMain ==
    \/ MainFirstCall
    \/ Fetch
    \/ FetchRaises
    \/ Return
    \/ MainHeader
    \/ MainSecondCall
    \/ MainPrint
    \/ MainCrash

SpecMain == InitMain /\ [][NextMain]_vars

\* ------------------------------------------------------------ one fetch_events call
InitAdapters ==
    /\ sources = <<>>
    /\ weight = [s \in {DaysOfTheYearSource, WikipediaSource} |-> DefaultWeight]
    /\ pc = "idle"
    /\ i = 1
    /\ all_events = <<>>
    /\ sorted_events = <<>>
    /\ failed = {}
    /\ today \in Todays
    /\ MainIdle
    /\ request \in Requests
    /\ adapter = "none"
    /\ payload = <<>>
    /\ fetched = NoCall

\* DaysOfTheYearSource().fetch_events(day, month, year), the provider
\* answering a page of cards.
DaysOfTheYearCall ==
    /\ adapter = "none"
    /\ \E cards \in SeqsUpTo(Cards, MaxCards) :
           /\ payload' = cards
           /\ fetched' = DaysOfTheYearFetch(cards, request.day, request.month, request.year, today)
    /\ adapter' = DaysOfTheYearSource
    /\ UNCHANGED <<collector_vars, main_vars, request, today>>

\* WikipediaSource().fetch_events(day, month, year), the provider answering
\* a feed.
WikipediaCall ==
    /\ adapter = "none"
    /\ \E api_data \in Feeds :
           /\ payload' = api_data
           /\ fetched' = WikipediaFetch(api_data, request.day, request.month, request.year, today)
    /\ adapter' = WikipediaSource
    /\ UNCHANGED <<collector_vars, main_vars, request, today>>

NextAdapters == DaysOfTheYearCall \/ WikipediaCall

SpecAdapters == InitAdapters /\ [][NextAdapters]_vars

\* ------------------------------------------------------------ helpers for the properties
Range(s) == {s[k] : k \in DOMAIN s}
Count(e, s) == Cardinality({k \in DOMAIN s : s[k] = e})
SameRecords(s, t) == \A e \in Range(s) \cup Range(t) : Count(e, s) = Count(e, t)

\* The ordering key of the specification, component by component:
\* (source weight, 0 if single-day else 1, date, category rank, title).
Flag(e) == IF e.date = e.end_date THEN 0 ELSE 1
KeyTie(a, b) ==
    /\ weight[a.source] = weight[b.source]
    /\ Flag(a) = Flag(b)
    /\ a.date = b.date
    /\ a.type = b.type
    /\ a.title = b.title
KeyBefore(a, b) ==
    \/ weight[a.source] < weight[b.source]
    \/ /\ weight[a.source] = weight[b.source]
       /\ \/ Flag(a) < Flag(b)
          \/ /\ Flag(a) = Flag(b)
             /\ \/ DateLt(a.date, b.date)
                \/ /\ a.date = b.date
                   /\ \/ a.type < b.type
                      \/ a.type = b.type /\ a.title < b.title
InKeyOrder(s) == \A k \in 1..(Len(s) - 1) : KeyBefore(s[k], s[k + 1]) \/ KeyTie(s[k], s[k + 1])

\* ------------------------------------------------------------ properties of the collector
\* C1: if one adapter's fetch raises, the collector still returns normally:
\* no exception reaches the caller, and the result holds exactly the records
\* of the adapters that did not fail, none of the failing adapter, in sorted
\* order.
C1_FailureIsolated ==
    failed # {} =>
        /\ pc # "raised"
        /\ pc = "returned" =>
               /\ SameRecords(sorted_events, all_events)
               /\ \A k \in DOMAIN sorted_events : sorted_events[k].source \notin failed
               /\ InKeyOrder(sorted_events)

\* C2: the result is the concatenation of all adapters' records rearranged
\* into nondecreasing order of the key: nothing dropped, added or
\* de-duplicated, and every adjacent pair is in key order.
C2_SortedPermutation ==
    pc = "returned" =>
        /\ SameRecords(sorted_events, all_events)
        /\ Len(sorted_events) = Len(all_events)
        /\ InKeyOrder(sorted_events)

\* Three records were delivered out of key order, two of them the same
\* record, and the collector returned.
C2_Witness ==
    /\ pc = "returned"
    /\ Len(all_events) = 3
    /\ sorted_events # all_events
    /\ \E j, k \in DOMAIN all_events : j # k /\ all_events[j] = all_events[k]

\* C3: in the result every record of a lower-weight source comes before
\* every record of a higher-weight source, whatever the other fields are.
C3_WeightFirst ==
    pc = "returned" =>
        \A j, k \in DOMAIN sorted_events :
            weight[sorted_events[j].source] < weight[sorted_events[k].source] => j < k

\* The result holds a multi-day, later, higher-rank, higher-title record of
\* the lighter source and a single-day record of the heavier source that
\* arrived first.
C3_Witness ==
    /\ pc = "returned"
    /\ \E j, k \in DOMAIN all_events :
           /\ j < k
           /\ weight[all_events[k].source] < weight[all_events[j].source]
           /\ Flag(all_events[k]) = 1 /\ Flag(all_events[j]) = 0
           /\ all_events[k].type > all_events[j].type
           /\ all_events[k].title > all_events[j].title

\* C9: for any two records of a completed run exactly one of a < b, b < a, "a and b
\* tie on every key component" holds; and equality is independent of it:
\* records with the same (title, link) and different dates are == while one
\* of them is strictly less than the other.
C9_TotalPreorder ==
    pc = "returned" =>
        \A j, k \in DOMAIN all_events :
            j <= k =>
            LET a == all_events[j]
                b == all_events[k]
                lt == EventLt(a, b)
                gt == EventLt(b, a)
                tie == KeyTie(a, b)
            IN  /\ \/ lt /\ ~gt /\ ~tie
                   \/ ~lt /\ gt /\ ~tie
                   \/ ~lt /\ ~gt /\ tie
                /\ (a.title = b.title /\ a.link = b.link /\ a.date # b.date) =>
                       EventEq(a, b) /\ (lt \/ gt)

\* A run holds two records with the same (title, link) and different dates,
\* and two different records that tie on every key component.
C9_Witness ==
    /\ pc = "returned"
    /\ \E a, b \in Range(all_events) :
           a.title = b.title /\ a.link = b.link /\ a.date # b.date
    /\ \E a, b \in Range(all_events) : a # b /\ KeyTie(a, b)

\* ------------------------------------------------------------ properties of the entry point
\* C8: two runs in which the adapters deliver the same records in a
\* different order return the same sequence, also when distinct records tie
\* on every key component.  The two runs are the two calls of the entry
\* point.
C8_ArrivalOrderIrrelevant ==
    (main_pc = "exit" /\ SameRecords(first_events, all_events)) =>
        sorted_events = events_today

\* C10: the count of the header is the number of event lines printed after
\* it, and the lines are the records of the collection that was counted.
C10_HeaderCountsLines ==
    main_pc = "exit" =>
        /\ header = Len(lines)
        /\ lines = [k \in DOMAIN events_today |-> Str(events_today[k])]

\* ------------------------------------------------------------ properties of the adapters
IsMonthOnly(text) == Len(text) = 1 /\ text[1][3] = 0

NextUpcoming(day, month, now) ==
    IF DateLt(<<now[1], month, day>>, now)
    THEN <<now[1] + 1, month, day>>
    ELSE <<now[1], month, day>>

C5_NextUpcoming ==
    (/\ adapter # "none"
     /\ request.year = NoYear
     /\ IsDate(<<today[1], request.month, request.day>>)
     /\ IsDate(<<today[1] + 1, request.month, request.day>>)) =>
        /\ fetched.raised # "TypeError"
        /\ fetched.raised = "no" =>
               /\ fetched.date = NextUpcoming(request.day, request.month, today)
               /\ ~DateLt(fetched.date, today)

\* C6: a card whose date is "month, year" yields a record from the first to
\* the last day of that month, which is not single-day.
C6_MonthOnlyExpands ==
    (adapter = DaysOfTheYearSource /\ fetched.raised = "no") =>
        \A k \in DOMAIN payload :
            IsMonthOnly(payload[k].date_day) =>
                LET y == payload[k].date_day[1][1]
                    m == payload[k].date_day[1][2]
                    e == fetched.events[k]
                IN  /\ e.date = <<y, m, 1>>
                    /\ e.end_date = <<y, m, DaysInMonth(y, m)>>
                    /\ ~is_single_day(e)

\* C7: the feed adapter yields one record per entry of births, deaths,
\* events and holidays, in that order, of category BIRTH, DEATH, ON_THIS_DAY
\* and HOLIDAY, each with the page of the entry it was built from as link.
C7_OneRecordPerEntry ==
    (adapter = WikipediaSource /\ fetched.raised = "no") =>
        LET entries == payload.births \o payload.deaths \o payload.events \o payload.holidays
            types == [k \in DOMAIN payload.births |-> BIRTH]
                     \o [k \in DOMAIN payload.deaths |-> DEATH]
                     \o [k \in DOMAIN payload.events |-> ON_THIS_DAY]
                     \o [k \in DOMAIN payload.holidays |-> HOLIDAY]
        IN  /\ Len(fetched.events) = Len(entries)
            /\ \A k \in DOMAIN fetched.events :
                   /\ fetched.events[k].type = types[k]
                   /\ fetched.events[k].link = entries[k].page

====
